---- MODULE Spec2Model ----
(***************************************************************************)
(* Model of the Pipedrive plugin's two actions:                            *)
(*   flow A  getPipedriveLeadOrDealInfo     (src/unnamed/part_000)          *)
(*   flow B  getPipedriveLeadOrDealSummary  (src/unnamed/part_001)          *)
(* JavaScript values are modelled as tagged records ("nodes"), so that     *)
(* optional fields, `?.`, `||`, `??`, `>` on undefined and Object.entries   *)
(* on arrays behave as they do in the source.                              *)
(***************************************************************************)
EXTENDS Integers, Sequences, FiniteSets, TLC

VARIABLES
    flow,          \* "A" or "B": which action's handler is running
    pc,            \* position of the handler
    searchTerm,    \* input.searchTerm (native string)
    instructions,  \* input.instructions (node: Undef or a string), flow A
    leadSearch,    \* "idle" | "pending" | "done": the lead search call
    dealSearch,    \* "idle" | "pending" | "done": the deal search call
    leadResults,   \* value searchPipedriveLead resolved to
    dealResults,   \* value searchPipedriveDeal resolved to
    bestLead,      \* handler local bestLead
    bestDeal,      \* handler local bestDeal
    primary,       \* getLeadInfo/getDealInfo local leadInfo/dealInfo (.data)
    activities,    \* local activities
    notes,         \* local notes
    info,          \* flow A local info (before pruning)
    cleanedInfo,   \* flow A local cleanedInfo
    responseJson,  \* flow A local responseJson right before the truncation
    summaryData,   \* flow B local summaryData
    completion,    \* flow B: body of the completion response (generateSummary local response)
    textResponse,  \* returned output (text), when outcome = "returned"
    errorMsg,      \* message of the thrown Error, when outcome = "thrown"
    outcome,       \* "none" | "returned" | "thrown"
    issued,        \* sequence of remote calls issued so far
    failedCalls    \* set of remote calls that completed with a failure

vars == << flow, pc, searchTerm, instructions, leadSearch, dealSearch,
           leadResults, dealResults, bestLead, bestDeal, primary, activities,
           notes, info, cleanedInfo, responseJson, summaryData, completion, textResponse,
           errorMsg, outcome, issued, failedCalls >>

-----------------------------------------------------------------------------
(* Bounds *)

\* longest list of hits a search response carries in the model
MaxHits == 2

\* flow A: longest response returned
MaxResponseLen == 90000

\* flow A: number of closest candidates listed per collection
ClosestCount == 3

-----------------------------------------------------------------------------
(* JavaScript values *)

Undef == [tag |-> "undef"]
Null == [tag |-> "null"]
Num(n) == [tag |-> "num", n |-> n]
\* a string value: the native string s repeated n times
Rep(s, n) == [tag |-> "str", s |-> s, n |-> n]
Str(s) == Rep(s, 1)
\* an object: a sequence of entries [k |-> key, v |-> value] in insertion order
Obj(kids) == [tag |-> "obj", kids |-> kids]
\* an array: a sequence of values
Arr(elems) == [tag |-> "arr", elems |-> elems]
KV(k, v) == [k |-> k, v |-> v]

\* v == null  (true of null and undefined)
IsNullish(v) == v.tag \in {"undef", "null"}

\* typeof v === 'object' for a value that is not null
IsObjectType(v) == v.tag \in {"obj", "arr"}

StrLen(v) == Len(v.s) * v.n

\* ToBoolean(v)
Truthy(v) ==
    CASE v.tag = "undef" -> FALSE
      [] v.tag = "null" -> FALSE
      [] v.tag = "num" -> v.n # 0
      [] v.tag = "str" -> StrLen(v) > 0
      [] OTHER -> TRUE

\* a || b
JsOr(a, b) == IF Truthy(a) THEN a ELSE b

\* a ?? b
JsCoalesce(a, b) == IF IsNullish(a) THEN b ELSE a

\* a > b on numbers and undefined: undefined converts to NaN, the comparison is false
JsGt(a, b) == a.tag = "num" /\ b.tag = "num" /\ a.n > b.n

\* v?.key  (also v.key where v is known to be an object)
Get(v, key) ==
    IF v.tag = "obj" /\ \E i \in 1..Len(v.kids) : v.kids[i].k = key
    THEN v.kids[CHOOSE i \in 1..Len(v.kids) : v.kids[i].k = key].v
    ELSE Undef

\* v?.length
Length(v) == IF v.tag = "arr" THEN Num(Len(v.elems)) ELSE Undef

-----------------------------------------------------------------------------
(* Strings *)

\* F applied to the value of e: JavaScript evaluates an argument once, before
\* the call
With(e, F(_)) == CHOOSE r \in { F(v) : v \in {e} } : TRUE

With2(e1, e2, F(_, _)) == CHOOSE r \in { F(v1, v2) : v1 \in {e1}, v2 \in {e2} } : TRUE

UpperCase == "ABCDEFGHIJKLMNOPQRSTUVWXYZ"
LowerCase == "abcdefghijklmnopqrstuvwxyz"

LowerChar(c) ==
    IF \E i \in 1..26 : SubSeq(UpperCase, i, i) = c
    THEN LET i == CHOOSE j \in 1..26 : SubSeq(UpperCase, j, j) = c
         IN SubSeq(LowerCase, i, i)
    ELSE c

RECURSIVE toLowerCase(_)
\* String.prototype.toLowerCase on a native string
toLowerCase(s) ==
    With(s, LAMBDA str :
        IF Len(str) = 0 THEN str
        ELSE LowerChar(SubSeq(str, 1, 1)) \o toLowerCase(SubSeq(str, 2, Len(str))))

\* String.prototype.includes on native strings
includes(hay, needle) ==
    \E h \in {hay}, d \in {needle} :
        \E i \in 0..(Len(h) - Len(d)) : SubSeq(h, i + 1, i + Len(d)) = d

IsSpace(c) == c \in {" ", "\n", "\t"}

RECURSIVE trimStart(_)
trimStart(s) ==
    With(s, LAMBDA str :
        IF Len(str) > 0 /\ IsSpace(SubSeq(str, 1, 1))
        THEN trimStart(SubSeq(str, 2, Len(str))) ELSE str)

RECURSIVE trimEnd(_)
trimEnd(s) ==
    With(s, LAMBDA str :
        IF Len(str) > 0 /\ IsSpace(SubSeq(str, Len(str), Len(str)))
        THEN trimEnd(SubSeq(str, 1, Len(str) - 1)) ELSE str)

\* only the leading whitespace is removed
trim_mut(s) == trimStart(s)

\* String.prototype.trim
trim(s) == trimEnd(trimStart(s))

-----------------------------------------------------------------------------
(* Native string held by a string value *)

RECURSIVE Repeat(_, _)
Repeat(s, n) == IF n = 0 THEN "" ELSE s \o Repeat(s, n - 1)

Flat(v) == Repeat(v.s, v.n)

\* x?.toLowerCase().includes(lower): undefined (falsy) when x is null/undefined
OptIncludes(x, lower) ==
    IF IsNullish(x) THEN FALSE ELSE includes(toLowerCase(Flat(x)), lower)

-----------------------------------------------------------------------------
(* Flow A: findBestMatch, part_000 178-192 *)

\* the additive local score of one (unwrapped) item
Info_score_mut(currentItem, lower) ==
    (IF OptIncludes(Get(currentItem, "title"), lower) THEN 1 ELSE 0)
    + (IF OptIncludes(Get(Get(currentItem, "organization"), "name"), lower) THEN 2 ELSE 0)
    + (IF OptIncludes(Get(Get(currentItem, "person"), "name"), lower) THEN 3 ELSE 0)

Info_score(currentItem, lower) ==
    (IF OptIncludes(Get(currentItem, "title"), lower) THEN 3 ELSE 0)
    + (IF OptIncludes(Get(Get(currentItem, "organization"), "name"), lower) THEN 2 ELSE 0)
    + (IF OptIncludes(Get(Get(currentItem, "person"), "name"), lower) THEN 1 ELSE 0)

\* the accumulator the fold starts from
Info_sentinel == [item |-> Null, score |-> -1, resultScore |-> Num(-1)]

\* an item replaces the accumulator only with a positive local score
Info_step_mut(best, item, lower) ==
    With2(JsOr(Get(item, "item"), item), Get(item, "result_score"),
          LAMBDA currentItem, resultScore :
        With(Info_score(currentItem, lower), LAMBDA score :
            IF score > 0
               /\ (\/ score > best.score
                   \/ (score = best.score /\ JsGt(resultScore, best.resultScore)))
            THEN [item |-> currentItem, score |-> score, resultScore |-> resultScore]
            ELSE best))

\* one step of the reduce callback
Info_step(best, item, lower) ==
    With2(JsOr(Get(item, "item"), item), Get(item, "result_score"),
          LAMBDA currentItem, resultScore :
        With(Info_score(currentItem, lower), LAMBDA score :
            IF score > best.score
               \/ (score = best.score /\ JsGt(resultScore, best.resultScore))
            THEN [item |-> currentItem, score |-> score, resultScore |-> resultScore]
            ELSE best))

RECURSIVE Info_reduce(_, _, _)
Info_reduce(elems, lower, best) ==
    With2(elems, best, LAMBDA rest, acc :
        IF rest = <<>> THEN acc
        ELSE Info_reduce(Tail(rest), lower, Info_step(acc, Head(rest), lower)))

\* findBestMatch(items, searchTerm) of flow A
Info_findBestMatch(items, term) ==
    IF ~Truthy(items) \/ items.tag # "arr" \/ Len(items.elems) = 0 THEN Null
    ELSE Info_reduce(items.elems, toLowerCase(term), Info_sentinel).item

\* results.data?.items?.length > 0 ? findBestMatch(results.data.items, term) : null
Info_best(results, term) ==
    IF JsGt(Length(Get(Get(results, "data"), "items")), Num(0))
    THEN Info_findBestMatch(Get(Get(results, "data"), "items"), term)
    ELSE Null

-----------------------------------------------------------------------------
(* Flow B: findBestMatch, part_001 164-183 *)

\* titleMatch || orgMatch || personMatch
Summary_matches(current, lower) ==
    \/ includes(toLowerCase(Flat(JsOr(Get(current, "title"), Str("")))), lower)
    \/ includes(toLowerCase(Flat(JsOr(Get(Get(current, "organization"), "name"), Str("")))), lower)
    \/ includes(toLowerCase(Flat(JsOr(Get(Get(current, "person"), "name"), Str("")))), lower)

\* one step of the reduce callback
Summary_step(best, current, lower) ==
    IF Summary_matches(current, lower)
       /\ (\/ ~Truthy(best)
           \/ (/\ Truthy(Get(current, "result_score"))
               /\ JsGt(Get(current, "result_score"), Get(best, "result_score"))))
    THEN current
    ELSE best

RECURSIVE Summary_reduce(_, _, _)
Summary_reduce(elems, lower, best) ==
    With2(elems, best, LAMBDA rest, acc :
        IF rest = <<>> THEN acc
        ELSE Summary_reduce(Tail(rest), lower, Summary_step(acc, Head(rest), lower)))

\* findBestMatch(items, searchTerm) of flow B
Summary_findBestMatch(items, term) ==
    IF items.tag # "arr" THEN Null
    ELSE Summary_reduce(items.elems, toLowerCase(term), Null)

\* items.map((item) => item.item)
UnwrapItems(items) ==
    Arr([i \in 1..Len(items.elems) |-> Get(items.elems[i], "item")])

\* results.data && results.data.items ? findBestMatch(items.map(...), term) : null
Summary_best(results, term) ==
    IF Truthy(Get(results, "data")) /\ Truthy(Get(Get(results, "data"), "items"))
    THEN Summary_findBestMatch(UnwrapItems(Get(Get(results, "data"), "items")), term)
    ELSE Null

-----------------------------------------------------------------------------
(* Texts: a text is a sequence of pieces [s, n], the string s repeated n    *)
(* times (n >= 1, s non-empty); long strings stay small in the model.       *)

Text(s) == IF Len(s) = 0 THEN <<>> ELSE << [s |-> s, n |-> 1] >>

\* the characters of a string value
TextOfStr(v) == IF StrLen(v) = 0 THEN <<>> ELSE << [s |-> v.s, n |-> v.n] >>

\* a + b on texts; adjacent unrepeated pieces are kept as one piece
Cat(a, b) ==
    With2(a, b, LAMBDA x, y :
        IF x = <<>> THEN y
        ELSE IF y = <<>> THEN x
        ELSE IF x[Len(x)].n = 1 /\ y[1].n = 1
        THEN SubSeq(x, 1, Len(x) - 1) \o << [s |-> x[Len(x)].s \o y[1].s, n |-> 1] >>
                \o Tail(y)
        ELSE x \o y)

RECURSIVE CatAll(_)
\* the concatenation of a sequence of texts
CatAll(ts) ==
    With(ts, LAMBDA texts :
        IF texts = <<>> THEN <<>> ELSE Cat(texts[1], CatAll(Tail(texts))))

RECURSIVE TextLen(_)
\* String.prototype.length
TextLen(t) ==
    With(t, LAMBDA text :
        IF text = <<>> THEN 0 ELSE Len(text[1].s) * text[1].n + TextLen(Tail(text)))

RECURSIVE substring0(_, _)
\* t.substring(0, k)
substring0(t, k) ==
    With2(t, k, LAMBDA text, len :
        IF len <= 0 \/ text = <<>> THEN <<>>
        ELSE LET p == text[1]
                 w == Len(p.s)
                 l == w * p.n
             IN IF l <= len THEN Cat(<<p>>, substring0(Tail(text), len - l))
                ELSE Cat(IF len \div w > 0 THEN << [s |-> p.s, n |-> len \div w] >> ELSE <<>>,
                         Text(SubSeq(p.s, 1, len % w))))

Truncate_mut(t) ==
    With(t, LAMBDA text :
        IF TextLen(text) > MaxResponseLen THEN substring0(text, MaxResponseLen + 1) ELSE text)

\* if (responseJson.length > 90000) responseJson = responseJson.substring(0, 90000)
Truncate(t) ==
    With(t, LAMBDA text :
        IF TextLen(text) > MaxResponseLen THEN substring0(text, MaxResponseLen) ELSE text)

\* if (instructions) responseJson = `Instructions for the following content: ...`
WithInstructions(instr, t) ==
    IF Truthy(instr)
    THEN CatAll(<< Text("Instructions for the following content: "), TextOfStr(instr),
                   Text("\n\n"), t >>)
    ELSE t

-----------------------------------------------------------------------------
(* Flow A: removeNulls, part_000 103-109 *)

\* Object.entries(v): own enumerable entries; an array's keys are its indices
Entries(v) ==
    With(v, LAMBDA o :
        IF o.tag = "obj" THEN o.kids
        ELSE IF o.tag = "arr"
             THEN [i \in 1..Len(o.elems) |-> KV(ToString(i - 1), o.elems[i])]
             ELSE <<>>)

\* a nested object left empty by the pruning becomes null after the filter ran
RECURSIVE removeNulls_mut(_)
removeNulls_mut(obj) ==
    With(SelectSeq(Entries(obj), LAMBDA e : ~IsNullish(e.v)), LAMBDA kept :
        LET Sub(v) == With(removeNulls_mut(v), LAMBDA r : IF r.kids = <<>> THEN Null ELSE r)
        IN Obj([i \in 1..Len(kept) |->
                  KV(kept[i].k,
                     IF IsObjectType(kept[i].v) THEN Sub(kept[i].v)
                     ELSE kept[i].v)]))

\* lists are copied as they are, only plain objects are pruned
RECURSIVE removeNulls_shallow(_)
removeNulls_shallow(obj) ==
    With(SelectSeq(Entries(obj), LAMBDA e : ~IsNullish(e.v)), LAMBDA kept :
        Obj([i \in 1..Len(kept) |->
               KV(kept[i].k,
                  IF kept[i].v.tag = "obj" THEN removeNulls_shallow(kept[i].v)
                  ELSE kept[i].v)]))

\* Object.fromEntries(Object.entries(obj).filter(...).map(...))
RECURSIVE removeNulls(_)
removeNulls(obj) ==
    With(SelectSeq(Entries(obj), LAMBDA e : ~IsNullish(e.v)), LAMBDA kept :
        Obj([i \in 1..Len(kept) |->
               KV(kept[i].k,
                  IF IsObjectType(kept[i].v) THEN removeNulls(kept[i].v)
                  ELSE kept[i].v)]))

-----------------------------------------------------------------------------
(* JSON.stringify(value, null, 2), part_000 112.  Strings of the model hold  *)
(* no character that JSON escapes.                                          *)

Indent(n) == Text(Repeat(" ", n))

RECURSIVE stringify(_, _)
RECURSIVE stringifyEntries(_, _, _)
RECURSIVE stringifyElems(_, _, _)

\* the members of an object, one per line, separated by ",\n"
stringifyEntries(kids, ind, first) ==
    With(kids, LAMBDA es :
        IF es = <<>> THEN <<>>
        ELSE CatAll(<< IF first THEN <<>> ELSE Text(",\n"),
                       Indent(ind), Text("\"" \o es[1].k \o "\": "),
                       stringify(es[1].v, ind),
                       stringifyEntries(Tail(es), ind, FALSE) >>))

\* the elements of an array; undefined is written as null
stringifyElems(elems, ind, first) ==
    With(elems, LAMBDA es :
        IF es = <<>> THEN <<>>
        ELSE CatAll(<< IF first THEN <<>> ELSE Text(",\n"),
                       Indent(ind),
                       IF es[1].tag = "undef" THEN Text("null") ELSE stringify(es[1], ind),
                       stringifyElems(Tail(es), ind, FALSE) >>))

stringify(v, ind) ==
    With2(v, ind, LAMBDA val, n :
        CASE val.tag = "num" -> Text(ToString(val.n))
          [] val.tag = "str" -> CatAll(<< Text("\""), TextOfStr(val), Text("\"") >>)
          [] val.tag = "null" -> Text("null")
          [] val.tag = "obj" ->
                With(SelectSeq(val.kids, LAMBDA e : e.v.tag # "undef"), LAMBDA kids :
                    IF kids = <<>> THEN Text("{}")
                    ELSE CatAll(<< Text("{\n"), stringifyEntries(kids, n + 2, TRUE),
                                   Text("\n"), Indent(n), Text("}") >>))
          [] val.tag = "arr" ->
                IF val.elems = <<>> THEN Text("[]")
                ELSE CatAll(<< Text("[\n"), stringifyElems(val.elems, n + 2, TRUE),
                               Text("\n"), Indent(n), Text("]") >>)
          [] OTHER -> <<>>)

-----------------------------------------------------------------------------
(* Inputs and remote responses *)

\* search terms (input.searchTerm is required, so never empty)
Terms == {"ac", "ZZ"}

\* input.instructions of flow A: absent, empty, or a short text
InstructionSet == {Undef, Str(""), Str("be brief")}

\* one item of a search response: the envelope {result_score, item}
Hit(rs, id, title, org, person) ==
    Obj(<< KV("result_score", rs),
           KV("item", Obj(<< KV("id", id), KV("title", title),
                             KV("organization", org), KV("person", person) >>)) >>)

Named(name) == Obj(<< KV("name", Str(name)) >>)

\* the hits the two handlers are run on, with their remote scores
FlowHits(id, rs1, rs2) ==
    { Hit(Num(rs1), id, Str("xAC corp"), Named("Ac"), Null),
      Hit(Num(rs2), id, Str("zz top"), Null, Null) }

\* the lead scores higher than the deal for one term, lower for the other
LeadHits == FlowHits(Str("lead-7"), 2, 1)
DealHits == FlowHits(Num(7), 1, 2)

\* the hits the scorers are checked on: every combination of the three
\* fields being absent, matching or not, and of the remote score
ScorerHits ==
    { Hit(rs, Num(7), title, org, person) :
        rs \in {Undef, Num(1), Num(2)},
        title \in {Undef, Str("xAC corp"), Str("zz top")},
        org \in {Null, Named("Ac")},
        person \in {Null, Named("Zac")} }

ListsUpTo(S, n) == UNION { [1..k -> S] : k \in 0..n }

\* body (response.data) of a successful search
SearchBody(list) == Obj(<< KV("data", Obj(<< KV("items", Arr(list)) >>)) >>)

\* what the catch block of searchPipedriveLead returns: { data: { items: [] } }
LeadSearchFallback == Obj(<< KV("data", Obj(<< KV("items", Arr(<<>>)) >>)) >>)

\* what the catch block of searchPipedriveDeal returns: { data: [] }
DealSearchFallback == Obj(<< KV("data", Arr(<<>>)) >>)

\* message of the error axios rejects with
AxiosErrors == {"Request failed with status code 500"}

\* response.data.data of the record endpoints
RecordData ==
    { Null,
      Obj(<< KV("id", Num(7)), KV("title", Str("xAC corp")), KV("value", Null),
             KV("org", Obj(<< KV("name", Str("Ac")), KV("address", Null) >>)),
             KV("labels", Arr(<< Str("hot"), Null >>)) >>) }

\* response.data.data of the activities endpoints
ActivitiesData ==
    { Null, Arr(<<>>),
      Arr(<< Obj(<< KV("subject", Str("call")), KV("note", Null) >>) >>) }

\* lengths of the note content: short; such that the longest response around
\* it is exactly 90,000 and 90,001 characters long; and well over the limit
NoteLens == {3, 89495, 89496, 95000}

\* response.data.data of the notes endpoints
NotesData ==
    { Arr(<<>>) } \cup
    { Arr(<< Obj(<< KV("content", Rep("x", n)), KV("user", Null) >>) >>) : n \in NoteLens }

\* bodies of the completion response
CompletionData ==
    { Obj(<< KV("choices", Arr(<<>>)) >>) } \cup
    { Obj(<< KV("choices", Arr(<< Obj(<< KV("message", Obj(<< KV("content", c) >>)) >>) >>)) >>) :
        c \in {Null, Str(""), Str("  "), Str(" Deal is open.\n")} }

\* message of the error the completion client rejects with
CompletionErrors == {"Connection error."}

Call(ep, id) == [ep |-> ep, id |-> id]

-----------------------------------------------------------------------------
(* Shared pieces of the handlers *)

searchVars == << leadSearch, dealSearch, leadResults, dealResults >>
fetchVars == << primary, activities, notes >>
outVars == << cleanedInfo, responseJson, textResponse, outcome, errorMsg >>
inputVars == << flow, searchTerm, instructions >>

\* the handler's catch block: throw new Error(`Failed to process request: ${message}`)
Throw(msg) ==
    /\ outcome' = "thrown"
    /\ errorMsg' = "Failed to process request: " \o msg
    /\ pc' = "done"
    /\ UNCHANGED << cleanedInfo, responseJson, textResponse >>

\* the handler goes on to wait for the next call
Await(p) ==
    /\ pc' = p
    /\ UNCHANGED outVars

Items(results) == Get(Get(results, "data"), "items")

-----------------------------------------------------------------------------
(* Flow A: handler, part_000 55-128 *)

\* { searchTerm, leadsFound, dealsFound }
Info_base(term, leads, deals) ==
    Obj(<< KV("searchTerm", Str(term)),
           KV("leadsFound", JsCoalesce(Length(Items(leads)), Num(0))),
           KV("dealsFound", JsCoalesce(Length(Items(deals)), Num(0))) >>)

Info_branch_mut(bd, bl) ==
    IF Truthy(bl) THEN "lead" ELSE IF Truthy(bd) THEN "deal" ELSE "none"

\* if (bestDeal) ... else if (bestLead) ... else ...
Info_branch(bd, bl) ==
    IF Truthy(bd) THEN "deal" ELSE IF Truthy(bl) THEN "lead" ELSE "none"

\* info.bestMatch = { type, data }
WithBestMatch(i, type, data) ==
    Obj(i.kids \o << KV("bestMatch", Obj(<< KV("type", Str(type)), KV("data", data) >>)) >>)

\* items.slice(0, 3).map((item) => ({ id: item.id, title: item.title }))
Closest(items) ==
    Arr([i \in 1..(IF Len(items.elems) < ClosestCount THEN Len(items.elems) ELSE ClosestCount) |->
            Obj(<< KV("id", Get(items.elems[i], "id")),
                   KV("title", Get(items.elems[i], "title")) >>)])

\* info.message and info.closestMatches of the no-match branch
WithClosest(i, leads, deals) ==
    Obj(i.kids \o << KV("message", Str("No exact matches found.")),
                     KV("closestMatches",
                        Obj(<< KV("deals", Closest(Items(deals))),
                               KV("leads", Closest(Items(leads))) >>)) >>)

\* removeNulls, JSON.stringify, the instruction prefix, the truncation, return
Respond(i) ==
    /\ info' = i
    /\ \E cleaned \in {removeNulls(i)} :
         \E json \in {WithInstructions(instructions, stringify(cleaned, 0))} :
            /\ cleanedInfo' = cleaned
            /\ responseJson' = json
            /\ textResponse' = Truncate(json)
    /\ outcome' = "returned"
    /\ pc' = "done"
    /\ UNCHANGED errorMsg

\* Promise.all([searchPipedriveLead(...), searchPipedriveDeal(...)]): both
\* functions run up to their axios.get before the handler awaits
A_Start ==
    /\ flow = "A" /\ pc = "start"
    /\ issued' = issued \o << Call("leads/search", Undef), Call("deals/search", Undef) >>
    /\ leadSearch' = "pending" /\ dealSearch' = "pending"
    /\ Await("searching")
    /\ UNCHANGED << inputVars, leadResults, dealResults, bestLead, bestDeal,
                    fetchVars, info, summaryData, completion, failedCalls >>

\* searchPipedriveLead of flow A resolves (part_000 142-151)
A_LeadSearchDone ==
    /\ flow = "A" /\ pc = "searching" /\ leadSearch = "pending"
    /\ leadSearch' = "done"
    /\ \/ /\ \E list \in ListsUpTo(LeadHits, MaxHits) : leadResults' = SearchBody(list)
          /\ UNCHANGED failedCalls
       \/ /\ \E e \in AxiosErrors : leadResults' = LeadSearchFallback
          /\ failedCalls' = failedCalls \cup {"leads/search"}
    /\ UNCHANGED << inputVars, pc, dealSearch, dealResults, bestLead, bestDeal,
                    fetchVars, info, summaryData, completion, outVars, issued >>

\* searchPipedriveDeal of flow A resolves (part_000 166-175)
A_DealSearchDone ==
    /\ flow = "A" /\ pc = "searching" /\ dealSearch = "pending"
    /\ dealSearch' = "done"
    /\ \/ /\ \E list \in ListsUpTo(DealHits, MaxHits) : dealResults' = SearchBody(list)
          /\ UNCHANGED failedCalls
       \/ /\ \E e \in AxiosErrors : dealResults' = DealSearchFallback
          /\ failedCalls' = failedCalls \cup {"deals/search"}
    /\ UNCHANGED << inputVars, pc, leadSearch, leadResults, bestLead, bestDeal,
                    fetchVars, info, summaryData, completion, outVars, issued >>

\* the join never resolves once a search has failed
BothSettled_hang ==
    leadSearch = "done" /\ dealSearch = "done" /\ failedCalls = {}

\* the join resolves as soon as one of the two searches has
BothSettled_race == leadSearch = "done" \/ dealSearch = "done"

\* await Promise.all([...]) (part_000 60-63): neither search function rejects,
\* so the join resolves when both have resolved
BothSettled == leadSearch = "done" /\ dealSearch = "done"

\* the handler resumes after Promise.all: scoring, info, the three branches
\* (part_000 65-100); the no-match branch runs to the return or to the catch
A_AfterSearch ==
    /\ flow = "A" /\ pc = "searching" /\ BothSettled
    /\ bestDeal' = Info_best(dealResults, searchTerm)
    /\ bestLead' = Info_best(leadResults, searchTerm)
    /\ LET base == Info_base(searchTerm, leadResults, dealResults)
           branch == Info_branch(bestDeal', bestLead')
       IN CASE branch = "deal" ->
                 /\ info' = base
                 /\ issued' = issued \o << Call("deals/id", Get(bestDeal', "id")) >>
                 /\ Await("dealRecord")
            [] branch = "lead" ->
                 /\ info' = base
                 /\ issued' = issued \o << Call("leads/id", Get(bestLead', "id")) >>
                 /\ Await("leadRecord")
            [] OTHER ->
                 /\ UNCHANGED issued
                 /\ IF Items(dealResults).tag # "arr"
                    THEN /\ info' = Obj(base.kids \o << KV("message", Str("No exact matches found.")) >>)
                         /\ Throw("Cannot read properties of undefined (reading 'slice')")
                    ELSE IF Items(leadResults).tag # "arr"
                    THEN /\ info' = Obj(base.kids \o << KV("message", Str("No exact matches found.")) >>)
                         /\ Throw("Cannot read properties of undefined (reading 'slice')")
                    ELSE Respond(WithClosest(base, leadResults, dealResults))
    /\ UNCHANGED << inputVars, searchVars, fetchVars, summaryData, completion, failedCalls >>

-----------------------------------------------------------------------------
(* Flow A: getDealInfo, part_000 233-254 *)

\* { deal: dealInfo.data.data, activities: activities.data.data, notes: notes.data.data }
DealRecord(d, a, n) ==
    Obj(<< KV("deal", d), KV("activities", a), KV("notes", n) >>)

\* a failed GET deals/{id} is tried a second time
A_DealRecordDone_mut ==
    /\ flow = "A" /\ pc = "dealRecord"
    /\ \/ /\ \E d \in RecordData : primary' = d
          /\ issued' = issued \o << Call("deals/id/activities", Get(bestDeal, "id")) >>
          /\ Await("dealActivities")
          /\ UNCHANGED failedCalls
       \/ /\ "deals/id" \notin failedCalls
          /\ issued' = issued \o << Call("deals/id", Get(bestDeal, "id")) >>
          /\ Await("dealRecord")
          /\ failedCalls' = failedCalls \cup {"deals/id"}
          /\ UNCHANGED primary
       \/ /\ "deals/id" \in failedCalls
          /\ \E e \in AxiosErrors : Throw("Failed to fetch deal info: " \o e)
          /\ UNCHANGED << primary, issued, failedCalls >>
    /\ UNCHANGED << inputVars, searchVars, bestLead, bestDeal, activities, notes,
                    info, summaryData, completion >>

\* GET deals/{id} completes
A_DealRecordDone ==
    /\ flow = "A" /\ pc = "dealRecord"
    /\ \/ /\ \E d \in RecordData : primary' = d
          /\ issued' = issued \o << Call("deals/id/activities", Get(bestDeal, "id")) >>
          /\ Await("dealActivities")
          /\ UNCHANGED failedCalls
       \/ /\ \E e \in AxiosErrors : Throw("Failed to fetch deal info: " \o e)
          /\ failedCalls' = failedCalls \cup {"deals/id"}
          /\ UNCHANGED << primary, issued >>
    /\ UNCHANGED << inputVars, searchVars, bestLead, bestDeal, activities, notes,
                    info, summaryData, completion >>

A_DealActivitiesDone_mut ==
    /\ flow = "A" /\ pc = "dealActivities"
    /\ \/ /\ \E a \in ActivitiesData : activities' = a
          /\ UNCHANGED failedCalls
       \/ /\ \E e \in AxiosErrors : activities' = Arr(<<>>)
          /\ failedCalls' = failedCalls \cup {"deals/id/activities"}
    /\ issued' = issued \o << Call("deals/id/notes", Get(bestDeal, "id")) >>
    /\ Await("dealNotes")
    /\ UNCHANGED << inputVars, searchVars, bestLead, bestDeal, primary, notes,
                    info, summaryData, completion >>

\* GET deals/{id}/activities completes
A_DealActivitiesDone ==
    /\ flow = "A" /\ pc = "dealActivities"
    /\ \/ /\ \E a \in ActivitiesData : activities' = a
          /\ issued' = issued \o << Call("deals/id/notes", Get(bestDeal, "id")) >>
          /\ Await("dealNotes")
          /\ UNCHANGED failedCalls
       \/ /\ \E e \in AxiosErrors : Throw("Failed to fetch deal info: " \o e)
          /\ failedCalls' = failedCalls \cup {"deals/id/activities"}
          /\ UNCHANGED << activities, issued >>
    /\ UNCHANGED << inputVars, searchVars, bestLead, bestDeal, primary, notes,
                    info, summaryData, completion >>

\* GET deals/{id}/notes completes; getDealInfo returns and the handler responds
A_DealNotesDone ==
    /\ flow = "A" /\ pc = "dealNotes"
    /\ \/ /\ \E n \in NotesData :
                /\ notes' = n
                /\ Respond(WithBestMatch(info, "deal", DealRecord(primary, activities, n)))
          /\ UNCHANGED failedCalls
       \/ /\ \E e \in AxiosErrors : Throw("Failed to fetch deal info: " \o e)
          /\ failedCalls' = failedCalls \cup {"deals/id/notes"}
          /\ UNCHANGED << notes, info >>
    /\ UNCHANGED << inputVars, searchVars, bestLead, bestDeal, primary, activities,
                    summaryData, completion, issued >>

-----------------------------------------------------------------------------
(* Flow A: getLeadInfo, part_000 194-231 *)

LeadAttachment_mut(ok, data) ==
    IF ok THEN JsOr(data, Arr(<<>>)) ELSE Null

\* let x = []; try { x = response.data.data || [] } catch { console.warn(...) }
LeadAttachment(ok, data) ==
    IF ok THEN JsOr(data, Arr(<<>>)) ELSE Arr(<<>>)

\* { lead: leadInfo.data.data, activities, notes }
LeadRecord(l, a, n) ==
    Obj(<< KV("lead", l), KV("activities", a), KV("notes", n) >>)

\* GET leads/{id} completes
A_LeadRecordDone ==
    /\ flow = "A" /\ pc = "leadRecord"
    /\ \/ /\ \E d \in RecordData : primary' = d
          /\ issued' = issued \o << Call("leads/id/activities", Get(bestLead, "id")) >>
          /\ Await("leadActivities")
          /\ UNCHANGED failedCalls
       \/ /\ \E e \in AxiosErrors : Throw("Failed to fetch lead info: " \o e)
          /\ failedCalls' = failedCalls \cup {"leads/id"}
          /\ UNCHANGED << primary, issued >>
    /\ UNCHANGED << inputVars, searchVars, bestLead, bestDeal, activities, notes,
                    info, summaryData, completion >>

\* GET leads/{id}/activities completes
A_LeadActivitiesDone ==
    /\ flow = "A" /\ pc = "leadActivities"
    /\ \/ /\ \E a \in ActivitiesData : activities' = LeadAttachment(TRUE, a)
          /\ UNCHANGED failedCalls
       \/ /\ \E e \in AxiosErrors : activities' = LeadAttachment(FALSE, Undef)
          /\ failedCalls' = failedCalls \cup {"leads/id/activities"}
    /\ issued' = issued \o << Call("leads/id/notes", Get(bestLead, "id")) >>
    /\ Await("leadNotes")
    /\ UNCHANGED << inputVars, searchVars, bestLead, bestDeal, primary, notes,
                    info, summaryData, completion >>

\* GET leads/{id}/notes completes; getLeadInfo returns and the handler responds
A_LeadNotesDone ==
    /\ flow = "A" /\ pc = "leadNotes"
    /\ \/ /\ \E n \in NotesData : notes' = LeadAttachment(TRUE, n)
          /\ UNCHANGED failedCalls
       \/ /\ \E e \in AxiosErrors : notes' = LeadAttachment(FALSE, Undef)
          /\ failedCalls' = failedCalls \cup {"leads/id/notes"}
    /\ Respond(WithBestMatch(info, "lead", LeadRecord(primary, activities, notes')))
    /\ UNCHANGED << inputVars, searchVars, bestLead, bestDeal, primary, activities,
                    summaryData, completion, issued >>

-----------------------------------------------------------------------------
(* Flow B: handler, part_001 63-108 *)

\* assignment of one property: an existing key keeps its place
SetKey(kids, k, v) ==
    IF \E i \in 1..Len(kids) : kids[i].k = k
    THEN [i \in 1..Len(kids) |-> IF kids[i].k = k THEN KV(k, v) ELSE kids[i]]
    ELSE Append(kids, KV(k, v))

RECURSIVE SpreadInto(_, _)
\* { ...kids, ...more }
SpreadInto(kids, more) ==
    IF more = <<>> THEN kids
    ELSE SpreadInto(SetKey(kids, more[1].k, more[1].v), Tail(more))

\* { type: 'lead', ...bestLead }
LeadSummaryData(bl) ==
    Obj(SpreadInto(<< KV("type", Str("lead")) >>, Entries(bl)))

\* { type: 'deal', ...bestDeal, activities }
DealSummaryData(bd, acts) ==
    Obj(SetKey(SpreadInto(<< KV("type", Str("deal")) >>, Entries(bd)), "activities", acts))

Summary_branch_mut(bl, bd) ==
    IF Truthy(bl) /\ (~Truthy(bd) \/ JsGt(Get(bl, "result_score"), Get(bd, "result_score")))
    THEN "lead"
    ELSE "deal"

\* if (bestLead && (!bestDeal || bestLead.result_score > bestDeal.result_score)) ...
\* else if (bestDeal) ... else throw
Summary_branch(bl, bd) ==
    IF Truthy(bl) /\ (~Truthy(bd) \/ JsGt(Get(bl, "result_score"), Get(bd, "result_score")))
    THEN "lead"
    ELSE IF Truthy(bd) THEN "deal" ELSE "none"

\* both searches are started together
B_Start_mut ==
    /\ flow = "B" /\ pc = "start"
    /\ issued' = issued \o << Call("leads/search", Undef), Call("deals/search", Undef) >>
    /\ leadSearch' = "pending" /\ dealSearch' = "pending"
    /\ Await("leadSearch")
    /\ UNCHANGED << inputVars, leadResults, dealResults, bestLead, bestDeal,
                    fetchVars, info, summaryData, completion, failedCalls >>

\* the handler starts: searchPipedriveLead is called and awaited
B_Start ==
    /\ flow = "B" /\ pc = "start"
    /\ issued' = issued \o << Call("leads/search", Undef) >>
    /\ leadSearch' = "pending"
    /\ Await("leadSearch")
    /\ UNCHANGED << inputVars, dealSearch, leadResults, dealResults, bestLead, bestDeal,
                    fetchVars, info, summaryData, completion, failedCalls >>

\* searchPipedriveLead of flow B resolves (part_001 114-134); the handler then
\* calls searchPipedriveDeal
B_LeadSearchDone ==
    /\ flow = "B" /\ pc = "leadSearch" /\ leadSearch = "pending"
    /\ leadSearch' = "done"
    /\ \/ /\ \E list \in ListsUpTo(LeadHits, MaxHits) : leadResults' = SearchBody(list)
          /\ UNCHANGED failedCalls
       \/ /\ \E e \in AxiosErrors : leadResults' = LeadSearchFallback
          /\ failedCalls' = failedCalls \cup {"leads/search"}
    /\ issued' = issued \o << Call("deals/search", Undef) >>
    /\ dealSearch' = "pending"
    /\ Await("dealSearch")
    /\ UNCHANGED << inputVars, dealResults, bestLead, bestDeal, fetchVars, info,
                    summaryData, completion >>

\* the completion is requested together with the activities of the deal
B_DealSearchDone_mut ==
    /\ flow = "B" /\ pc = "dealSearch" /\ dealSearch = "pending"
    /\ dealSearch' = "done"
    /\ \/ /\ \E list \in ListsUpTo(DealHits, MaxHits) : dealResults' = SearchBody(list)
          /\ UNCHANGED failedCalls
       \/ /\ \E e \in AxiosErrors : dealResults' = DealSearchFallback
          /\ failedCalls' = failedCalls \cup {"deals/search"}
    /\ bestLead' = Summary_best(leadResults, searchTerm)
    /\ bestDeal' = Summary_best(dealResults', searchTerm)
    /\ LET branch == Summary_branch(bestLead', bestDeal')
       IN CASE branch = "lead" ->
                 /\ summaryData' = LeadSummaryData(bestLead')
                 /\ issued' = issued \o << Call("completion", Undef) >>
                 /\ Await("completion")
            [] branch = "deal" ->
                 /\ issued' = issued \o << Call("deals/id/activities", Get(bestDeal', "id")),
                                           Call("completion", Undef) >>
                 /\ Await("activities")
                 /\ UNCHANGED summaryData
            [] OTHER ->
                 /\ Throw("No matching leads or deals found")
                 /\ UNCHANGED << summaryData, issued >>
    /\ UNCHANGED << inputVars, leadSearch, leadResults, fetchVars, info, completion >>

\* searchPipedriveDeal of flow B resolves (part_001 141-161); the handler
\* selects the candidates and takes one of its three branches (81-96)
B_DealSearchDone ==
    /\ flow = "B" /\ pc = "dealSearch" /\ dealSearch = "pending"
    /\ dealSearch' = "done"
    /\ \/ /\ \E list \in ListsUpTo(DealHits, MaxHits) : dealResults' = SearchBody(list)
          /\ UNCHANGED failedCalls
       \/ /\ \E e \in AxiosErrors : dealResults' = DealSearchFallback
          /\ failedCalls' = failedCalls \cup {"deals/search"}
    /\ bestLead' = Summary_best(leadResults, searchTerm)
    /\ bestDeal' = Summary_best(dealResults', searchTerm)
    /\ LET branch == Summary_branch(bestLead', bestDeal')
       IN CASE branch = "lead" ->
                 /\ summaryData' = LeadSummaryData(bestLead')
                 /\ issued' = issued \o << Call("completion", Undef) >>
                 /\ Await("completion")
            [] branch = "deal" ->
                 /\ issued' = issued \o << Call("deals/id/activities", Get(bestDeal', "id")) >>
                 /\ Await("activities")
                 /\ UNCHANGED summaryData
            [] OTHER ->
                 /\ Throw("No matching leads or deals found")
                 /\ UNCHANGED << summaryData, issued >>
    /\ UNCHANGED << inputVars, leadSearch, leadResults, fetchVars, info, completion >>

\* what getActivitiesForDeal resolves to (part_001 189-198)
DealActivities(ok, data) == IF ok THEN data ELSE Arr(<<>>)

\* a failed activities fetch ends the request
B_ActivitiesDone_mut ==
    /\ flow = "B" /\ pc = "activities"
    /\ \/ /\ \E a \in ActivitiesData : activities' = DealActivities(TRUE, a)
          /\ summaryData' = DealSummaryData(bestDeal, activities')
          /\ issued' = issued \o << Call("completion", Undef) >>
          /\ Await("completion")
          /\ UNCHANGED failedCalls
       \/ /\ \E e \in AxiosErrors : Throw("Failed to fetch activities: " \o e)
          /\ failedCalls' = failedCalls \cup {"deals/id/activities"}
          /\ UNCHANGED << activities, summaryData, issued >>
    /\ UNCHANGED << inputVars, searchVars, bestLead, bestDeal, primary, notes, info, completion >>

\* GET deals/{id}/activities of flow B completes; generateSummary is called
B_ActivitiesDone ==
    /\ flow = "B" /\ pc = "activities"
    /\ \/ /\ \E a \in ActivitiesData : activities' = DealActivities(TRUE, a)
          /\ UNCHANGED failedCalls
       \/ /\ \E e \in AxiosErrors : activities' = DealActivities(FALSE, Undef)
          /\ failedCalls' = failedCalls \cup {"deals/id/activities"}
    /\ summaryData' = DealSummaryData(bestDeal, activities')
    /\ issued' = issued \o << Call("completion", Undef) >>
    /\ Await("completion")
    /\ UNCHANGED << inputVars, searchVars, bestLead, bestDeal, primary, notes, info, completion >>

\* response.choices[0]?.message?.content
CompletionContent(response) ==
    LET choices == Get(response, "choices")
        first == IF choices.tag = "arr" /\ Len(choices.elems) > 0
                 THEN choices.elems[1] ELSE Undef
    IN Get(Get(first, "message"), "content")

\* the completion request completes (generateSummary, part_001 242-257)
B_CompletionDone ==
    /\ flow = "B" /\ pc = "completion"
    /\ \/ /\ \E r \in CompletionData :
                /\ completion' = r
                /\ IF Truthy(CompletionContent(r))
                   THEN /\ textResponse' = Text(trim(Flat(CompletionContent(r))))
                        /\ outcome' = "returned"
                        /\ pc' = "done"
                        /\ UNCHANGED << cleanedInfo, responseJson, errorMsg >>
                   ELSE Throw("Failed to generate summary: No summary generated")
          /\ UNCHANGED failedCalls
       \/ /\ \E e \in CompletionErrors : Throw("Failed to generate summary: " \o e)
          /\ failedCalls' = failedCalls \cup {"completion"}
          /\ UNCHANGED completion
    /\ UNCHANGED << inputVars, searchVars, bestLead, bestDeal, fetchVars, info,
                    summaryData, issued >>

-----------------------------------------------------------------------------
(* The two handlers *)

Idle ==
    /\ leadSearch = "idle" /\ dealSearch = "idle"
    /\ leadResults = Undef /\ dealResults = Undef
    /\ bestLead = Undef /\ bestDeal = Undef
    /\ primary = Undef /\ activities = Undef /\ notes = Undef
    /\ info = Undef /\ cleanedInfo = Undef /\ summaryData = Undef /\ completion = Undef
    /\ responseJson = <<>> /\ textResponse = <<>>
    /\ errorMsg = "" /\ outcome = "none"
    /\ issued = <<>> /\ failedCalls = {}

Init ==
    /\ flow \in {"A", "B"}
    /\ pc = "start"
    /\ searchTerm \in Terms
    /\ instructions \in (IF flow = "A" THEN InstructionSet ELSE {Undef})
    /\ Idle

Next ==
    \/ A_Start
    \/ A_LeadSearchDone
    \/ A_DealSearchDone
    \/ A_AfterSearch
    \/ A_DealRecordDone
    \/ A_DealActivitiesDone
    \/ A_DealNotesDone
    \/ A_LeadRecordDone
    \/ A_LeadActivitiesDone
    \/ A_LeadNotesDone
    \/ B_Start
    \/ B_LeadSearchDone
    \/ B_DealSearchDone
    \/ B_ActivitiesDone
    \/ B_CompletionDone

Spec == Init /\ [][Next]_vars

\* every issued call completes and the handler resumes after each await
FairSpec == Spec /\ WF_vars(Next)

-----------------------------------------------------------------------------
(* The two scorers on their own, over every list of ScorerHits *)

ScorerInit ==
    /\ flow \in {"A", "B"}
    /\ pc = "match"
    /\ searchTerm \in Terms
    /\ instructions = Undef
    /\ leadSearch = "done" /\ dealSearch = "idle"
    /\ leadResults \in { SearchBody(list) : list \in ListsUpTo(ScorerHits, MaxHits) }
    /\ dealResults = Undef
    /\ bestLead = Undef /\ bestDeal = Undef
    /\ primary = Undef /\ activities = Undef /\ notes = Undef
    /\ info = Undef /\ cleanedInfo = Undef /\ summaryData = Undef /\ completion = Undef
    /\ responseJson = <<>> /\ textResponse = <<>>
    /\ errorMsg = "" /\ outcome = "none"
    /\ issued = <<>> /\ failedCalls = {}

\* const bestLead = ... findBestMatch(leadResults.data.items, searchTerm) ... (part_000 68-70)
Info_Match ==
    /\ flow = "A" /\ pc = "match"
    /\ bestLead' = Info_best(leadResults, searchTerm)
    /\ pc' = "matched"
    /\ UNCHANGED << inputVars, searchVars, bestDeal, fetchVars, info, summaryData, completion,
                    outVars, issued, failedCalls >>

\* const bestLead = ... findBestMatch(leadResults.data.items.map(...), searchTerm) ... (part_001 81-83)
Summary_Match ==
    /\ flow = "B" /\ pc = "match"
    /\ bestLead' = Summary_best(leadResults, searchTerm)
    /\ pc' = "matched"
    /\ UNCHANGED << inputVars, searchVars, bestDeal, fetchVars, info, summaryData, completion,
                    outVars, issued, failedCalls >>

ScorerNext == Info_Match \/ Summary_Match

ScorerSpec == ScorerInit /\ [][ScorerNext]_vars

-----------------------------------------------------------------------------
(* removeNulls on its own, over payload trees of objects, lists, scalars,   *)
(* null and undefined                                                       *)

MaxElems == 2

PruneLeaves == {Null, Undef, Num(0), Str(""), Str("a")}

\* an object or a list holding leaves only
PruneInner ==
    {Obj(<<>>)} \cup { Obj(<< KV("x", l) >>) : l \in PruneLeaves }
                \cup { Arr(list) : list \in ListsUpTo(PruneLeaves, MaxElems) }

PruneValues == PruneLeaves \cup PruneInner

\* the payload: an object with a value and a nested object
PruneTrees ==
    { Obj(<< KV("a", v), KV("b", Obj(<< KV("c", w) >>)) >>) :
        v \in PruneValues, w \in PruneValues }

PruneInit ==
    /\ flow = "A"
    /\ pc = "prune"
    /\ searchTerm \in Terms
    /\ instructions = Undef
    /\ leadSearch = "idle" /\ dealSearch = "idle"
    /\ leadResults = Undef /\ dealResults = Undef
    /\ bestLead = Undef /\ bestDeal = Undef
    /\ primary = Undef /\ activities = Undef /\ notes = Undef
    /\ info \in PruneTrees
    /\ cleanedInfo = Undef /\ summaryData = Undef /\ completion = Undef
    /\ responseJson = <<>> /\ textResponse = <<>>
    /\ errorMsg = "" /\ outcome = "none"
    /\ issued = <<>> /\ failedCalls = {}

\* const cleanedInfo = removeNulls(info); (part_000 111)
Prune ==
    /\ pc = "prune"
    /\ cleanedInfo' = removeNulls(info)
    /\ pc' = "pruned"
    /\ UNCHANGED << inputVars, searchVars, bestLead, bestDeal, fetchVars, info,
                    summaryData, completion, responseJson, textResponse, errorMsg, outcome,
                    issued, failedCalls >>

\* removeNulls applied to what it returned
PruneAgain ==
    /\ pc = "pruned"
    /\ info' = cleanedInfo
    /\ cleanedInfo' = removeNulls(cleanedInfo)
    /\ pc' = "repruned"
    /\ UNCHANGED << inputVars, searchVars, bestLead, bestDeal, fetchVars,
                    summaryData, completion, responseJson, textResponse, errorMsg, outcome,
                    issued, failedCalls >>

PruneNext == Prune \/ PruneAgain

PruneSpec == PruneInit /\ [][PruneNext]_vars

-----------------------------------------------------------------------------
(* Vocabulary of the properties, stated without the operators of the code *)

\* term occurs in the string value v, case-insensitively, compared char by char
RefContains(v, term) ==
    /\ v.tag = "str"
    /\ \E i \in 1..Len(v.s) :
          /\ i + Len(term) - 1 <= Len(v.s)
          /\ \A j \in 1..Len(term) :
                LowerChar(SubSeq(v.s, i + j - 1, i + j - 1)) = LowerChar(SubSeq(term, j, j))

RefTitle(hit, term) == RefContains(Get(Get(hit, "item"), "title"), term)
RefOrg(hit, term) == RefContains(Get(Get(Get(hit, "item"), "organization"), "name"), term)
RefPerson(hit, term) == RefContains(Get(Get(Get(hit, "item"), "person"), "name"), term)

\* title = 3, organization name = 2, person name = 1, summed
RefScore(hit, term) ==
    (IF RefTitle(hit, term) THEN 3 ELSE 0) + (IF RefOrg(hit, term) THEN 2 ELSE 0)
    + (IF RefPerson(hit, term) THEN 1 ELSE 0)

RefMatches(hit, term) == RefTitle(hit, term) \/ RefOrg(hit, term) \/ RefPerson(hit, term)

\* the hits of a search result, as a sequence (empty when there is no list)
HitsOf(results) ==
    IF Items(results).tag = "arr" THEN Items(results).elems ELSE <<>>

\* the remote score of hit a is below that of hit b (an absent score is lowest)
RemoteBelow(a, b) ==
    LET ra == Get(a, "result_score")
        rb == Get(b, "result_score")
    IN rb.tag = "num" /\ (ra.tag # "num" \/ ra.n < rb.n)

\* the endpoints a call sequence names
Endpoints(calls) == { calls[i].ep : i \in 1..Len(calls) }

LeadDetailEndpoints == {"leads/id", "leads/id/activities", "leads/id/notes"}
DealDetailEndpoints == {"deals/id", "deals/id/activities", "deals/id/notes"}

RECURSIVE IsPrefix(_, _)
\* text a is a prefix of text b
IsPrefix(a, b) ==
    IF a = <<>> THEN TRUE
    ELSE IF b = <<>> THEN FALSE
    ELSE LET pa == a[1]
             pb == b[1]
             la == Len(pa.s)
             lb == Len(pb.s)
         IN IF pa = pb THEN IsPrefix(Tail(a), Tail(b))
            ELSE IF pa.s = pb.s
            THEN IF pa.n < pb.n
                 THEN IsPrefix(Tail(a), << [s |-> pb.s, n |-> pb.n - pa.n] >> \o Tail(b))
                 ELSE IsPrefix(<< [s |-> pa.s, n |-> pa.n - pb.n] >> \o Tail(a), Tail(b))
            ELSE IF pa.n = 1 /\ la < lb
            THEN /\ pa.s = SubSeq(pb.s, 1, la)
                 /\ IsPrefix(Tail(a),
                             << [s |-> SubSeq(pb.s, la + 1, lb), n |-> 1] >>
                             \o (IF pb.n > 1 THEN << [s |-> pb.s, n |-> pb.n - 1] >> ELSE <<>>)
                             \o Tail(b))
            ELSE /\ pb.n = 1 /\ pa.n = 1 /\ lb < la
                 /\ pb.s = SubSeq(pa.s, 1, lb)
                 /\ IsPrefix(<< [s |-> SubSeq(pa.s, lb + 1, la), n |-> 1] >> \o Tail(a), Tail(b))

-----------------------------------------------------------------------------
(* Flow A: search failures *)

\* C1: in flow A a failed search never aborts the request: whatever the two
\* searches did, if no detail fetch failed the handler returns a textResponse.
C1_SearchFailureNeverAborts ==
    (flow = "A" /\ pc = "done" /\ failedCalls \subseteq {"leads/search", "deals/search"})
        => outcome = "returned"

\* C2: in flow A, when both searches complete with zero hits the handler
\* returns the no-match payload: searchTerm, leadsFound = 0, dealsFound = 0,
\* a message, closestMatches with two empty arrays, and no bestMatch.
C2_NoMatchPayload ==
    (/\ flow = "A" /\ pc = "done"
     /\ leadResults = SearchBody(<<>>) /\ dealResults = SearchBody(<<>>))
        => /\ outcome = "returned"
           /\ Get(cleanedInfo, "searchTerm") = Str(searchTerm)
           /\ Get(cleanedInfo, "leadsFound") = Num(0)
           /\ Get(cleanedInfo, "dealsFound") = Num(0)
           /\ Get(cleanedInfo, "message").tag = "str"
           /\ Get(Get(cleanedInfo, "closestMatches"), "deals") = Arr(<<>>)
           /\ Get(Get(cleanedInfo, "closestMatches"), "leads") = Arr(<<>>)
           /\ Get(cleanedInfo, "bestMatch") = Undef

-----------------------------------------------------------------------------
(* Flow A: findBestMatch *)

\* C3: flow A findBestMatch returns, for a non-empty list, an item of the
\* list whose additive local score is the maximum over the list.
C3_MaxLocalScore ==
    (flow = "A" /\ pc = "matched" /\ HitsOf(leadResults) # <<>>)
        => \E i \in 1..Len(HitsOf(leadResults)) :
              /\ bestLead = Get(HitsOf(leadResults)[i], "item")
              /\ \A j \in 1..Len(HitsOf(leadResults)) :
                    RefScore(HitsOf(leadResults)[j], searchTerm)
                        <= RefScore(HitsOf(leadResults)[i], searchTerm)

\* a hit with local score 3 and remote score 1 is returned although a hit
\* with local score 0 has remote score 2
C3_Witness ==
    /\ flow = "A" /\ pc = "matched"
    /\ \E i, j \in 1..Len(HitsOf(leadResults)) :
          /\ bestLead = Get(HitsOf(leadResults)[i], "item")
          /\ RefScore(HitsOf(leadResults)[i], searchTerm) = 3
          /\ Get(HitsOf(leadResults)[i], "result_score") = Num(1)
          /\ RefScore(HitsOf(leadResults)[j], searchTerm) = 0
          /\ Get(HitsOf(leadResults)[j], "result_score") = Num(2)

\* C4: flow A findBestMatch returns, among the items sharing the maximal
\* local score, one with the highest remote result_score, also when
\* result_score is absent on some of them.
C4_TieBreakByRemoteScore ==
    (flow = "A" /\ pc = "matched" /\ HitsOf(leadResults) # <<>>)
        => \E i \in 1..Len(HitsOf(leadResults)) :
              /\ bestLead = Get(HitsOf(leadResults)[i], "item")
              /\ \A j \in 1..Len(HitsOf(leadResults)) :
                    RefScore(HitsOf(leadResults)[j], searchTerm)
                          = RefScore(HitsOf(leadResults)[i], searchTerm)
                        => ~RemoteBelow(HitsOf(leadResults)[i], HitsOf(leadResults)[j])



-----------------------------------------------------------------------------
(* Flow A: the branch taken and the detail aggregation *)

\* C5: in flow A, once the deal search has returned at least one hit, only
\* deal detail endpoints are fetched and a response has bestMatch.type
\* 'deal'; bestMatch.type is 'lead' only when the deal result set is empty
\* and the lead result set is not.
C5_DealPreferred ==
    flow = "A" =>
        /\ (dealSearch = "done" /\ HitsOf(dealResults) # <<>>)
              => /\ Endpoints(issued) \cap LeadDetailEndpoints = {}
                 /\ outcome = "returned"
                       => Get(Get(cleanedInfo, "bestMatch"), "type") = Str("deal")
                 /\ pc \notin {"start", "searching"}
                       => "deals/id" \in Endpoints(issued)
        /\ (outcome = "returned" /\ Get(Get(cleanedInfo, "bestMatch"), "type") = Str("lead"))
              => /\ HitsOf(dealResults) = <<>>
                 /\ HitsOf(leadResults) # <<>>
                 /\ Endpoints(issued) \cap DealDetailEndpoints = {}

\* a deal is returned although a lead hit has the higher local score
C5_Witness ==
    /\ flow = "A" /\ outcome = "returned"
    /\ Get(Get(cleanedInfo, "bestMatch"), "type") = Str("deal")
    /\ Len(HitsOf(leadResults)) = 2
    /\ \E i \in 1..Len(HitsOf(leadResults)) :
          \A j \in 1..Len(HitsOf(dealResults)) :
              RefScore(HitsOf(leadResults)[i], searchTerm)
                  > RefScore(HitsOf(dealResults)[j], searchTerm)

\* the aggregated record of the response, before pruning
Aggregated == Get(Get(info, "bestMatch"), "data")

\* C6: getLeadInfo: a failed lead record fetch fails the request with an
\* error naming the lead fetch; after a successful one the request succeeds
\* whatever the activities and notes fetches did, a failed attachment being
\* an empty list and a successful one what its endpoint returned.
C6_LeadAggregation ==
    flow = "A" =>
        /\ "leads/id" \in failedCalls
              => /\ outcome = "thrown"
                 /\ \E e \in AxiosErrors :
                       errorMsg = "Failed to process request: Failed to fetch lead info: " \o e
        /\ (pc = "done" /\ "leads/id" \in Endpoints(issued) /\ "leads/id" \notin failedCalls)
              => /\ outcome = "returned"
                 /\ Get(Aggregated, "lead") = primary /\ primary \in RecordData
                 /\ IF "leads/id/activities" \in failedCalls
                    THEN Get(Aggregated, "activities") = Arr(<<>>)
                    ELSE Get(Aggregated, "activities")
                            \in { IF IsNullish(a) THEN Arr(<<>>) ELSE a : a \in ActivitiesData }
                 /\ IF "leads/id/notes" \in failedCalls
                    THEN Get(Aggregated, "notes") = Arr(<<>>)
                    ELSE Get(Aggregated, "notes") \in NotesData

\* the activities fetch failed, the notes fetch returned a note
C6_Witness ==
    /\ flow = "A" /\ outcome = "returned"
    /\ failedCalls = {"leads/id/activities"}
    /\ Get(Aggregated, "activities") = Arr(<<>>)
    /\ Get(Aggregated, "notes").tag = "arr" /\ Get(Aggregated, "notes").elems # <<>>

\* the deal detail calls issued so far, in order
DealCalls == SelectSeq(issued, LAMBDA c : c.ep \in DealDetailEndpoints)

\* C7: getDealInfo of flow A: a failure of the deal record, activities or
\* notes call fails the request; the calls are issued in the order record,
\* activities, notes, and none is issued after one has failed.
C7_DealAggregationFatal ==
    flow = "A" =>
        /\ failedCalls \cap DealDetailEndpoints # {}
              => /\ outcome = "thrown" /\ pc = "done"
                 /\ \E e \in AxiosErrors :
                       errorMsg = "Failed to process request: Failed to fetch deal info: " \o e
                 /\ DealCalls[Len(DealCalls)].ep \in failedCalls
        /\ Cardinality(failedCalls \cap DealDetailEndpoints) <= 1
        /\ [i \in 1..Len(DealCalls) |-> DealCalls[i].ep]
              = SubSeq(<< "deals/id", "deals/id/activities", "deals/id/notes" >>, 1, Len(DealCalls))
        /\ \A i \in 1..Len(DealCalls) : DealCalls[i].id = Get(bestDeal, "id")

\* the deal activities fetch failed
C7_Witness ==
    /\ flow = "A" /\ outcome = "thrown"
    /\ "deals/id/activities" \in failedCalls
    /\ Endpoints(issued) \cap DealDetailEndpoints = {"deals/id", "deals/id/activities"}

-----------------------------------------------------------------------------
(* Flow B: candidate selection *)

\* C8: flow B chooses from a result set an item that matches on title,
\* organization name or person name, and among the matching items the one
\* with the highest result_score of the envelope; null exactly when no item
\* matches.
C8_GatedThenRemoteScore ==
    (flow = "B" /\ pc = "matched")
        => IF \E j \in 1..Len(HitsOf(leadResults)) : RefMatches(HitsOf(leadResults)[j], searchTerm)
           THEN \E i \in 1..Len(HitsOf(leadResults)) :
                   /\ bestLead = Get(HitsOf(leadResults)[i], "item")
                   /\ RefMatches(HitsOf(leadResults)[i], searchTerm)
                   /\ \A j \in 1..Len(HitsOf(leadResults)) :
                         RefMatches(HitsOf(leadResults)[j], searchTerm)
                             => ~RemoteBelow(HitsOf(leadResults)[i], HitsOf(leadResults)[j])
           ELSE bestLead = Null


\* no hit of either result set matches the term on any field
NoCandidate ==
    /\ \A j \in 1..Len(HitsOf(leadResults)) : ~RefMatches(HitsOf(leadResults)[j], searchTerm)
    /\ \A j \in 1..Len(HitsOf(dealResults)) : ~RefMatches(HitsOf(dealResults)[j], searchTerm)

\* C9: in flow B, when neither result set yields a matching candidate the
\* request fails with the error that no matching leads or deals were found,
\* and neither the deal activities endpoint nor the completion is called.
C9_NoMatchIsFatal ==
    (flow = "B" /\ dealSearch = "done" /\ NoCandidate)
        => /\ outcome = "thrown" /\ pc = "done"
           /\ errorMsg = "Failed to process request: No matching leads or deals found"
           /\ Endpoints(issued) = {"leads/search", "deals/search"}

\* both searches returned hits, none of them matching
C9_Witness ==
    /\ flow = "B" /\ outcome = "thrown" /\ NoCandidate
    /\ HitsOf(leadResults) # <<>> /\ HitsOf(dealResults) # <<>>
    /\ failedCalls = {}

-----------------------------------------------------------------------------
(* Flow A: the length of the response *)

\* C10: the textResponse of flow A is never longer than 90,000 characters:
\* a final string (serialized body, with the instruction prefix when
\* instructions are supplied) longer than that is cut to its first 90,000
\* characters, a shorter one is returned unchanged.
C10_LengthBound ==
    (flow = "A" /\ outcome = "returned")
        => /\ TextLen(textResponse) <= 90000
           /\ IsPrefix(textResponse, responseJson)
           /\ TextLen(responseJson) > 90000 => TextLen(textResponse) = 90000
           /\ TextLen(responseJson) <= 90000 => textResponse = responseJson
           /\ Truthy(instructions)
                 => IsPrefix(<< [s |-> "Instructions for the following content: ", n |-> 1],
                                [s |-> instructions.s, n |-> instructions.n],
                                [s |-> "\n\n{", n |-> 1] >>, responseJson)
           /\ ~Truthy(instructions) => IsPrefix(<< [s |-> "{", n |-> 1] >>, responseJson)

\* a final string of 90,001 characters, with instructions
C10_Witness ==
    /\ flow = "A" /\ outcome = "returned"
    /\ Truthy(instructions)
    /\ TextLen(responseJson) = 90001
    /\ TextLen(textResponse) = 90000

-----------------------------------------------------------------------------
(* Flow A: the null-pruning *)

\* the keys of a container with their values; a list is keyed by its indices
RefChildren(v) ==
    IF v.tag = "obj" THEN { << v.kids[i].k, v.kids[i].v >> : i \in 1..Len(v.kids) }
    ELSE IF v.tag = "arr" THEN { << ToString(i - 1), v.elems[i] >> : i \in 1..Len(v.elems) }
    ELSE {}

RefAbsent(v) == v.tag \in {"null", "undef"}

RefContainer(v) == v.tag \in {"obj", "arr"}

\* no key at any depth has a null or undefined value
RECURSIVE NoNullAnywhere(_)
NoNullAnywhere(v) ==
    \A c \in RefChildren(v) : ~RefAbsent(c[2]) /\ NoNullAnywhere(c[2])

\* every key of orig with a value is a key of pruned: with the same value when
\* it is a scalar, with the kept keys of the value when it is a container;
\* and pruned has no other key
RECURSIVE Kept(_, _)
Kept(orig, pruned) ==
    /\ \A c \in RefChildren(orig) :
          ~RefAbsent(c[2])
             => \E d \in RefChildren(pruned) :
                   /\ d[1] = c[1]
                   /\ IF RefContainer(c[2]) THEN Kept(c[2], d[2]) ELSE d[2] = c[2]
    /\ \A d \in RefChildren(pruned) :
          \E c \in RefChildren(orig) : c[1] = d[1] /\ ~RefAbsent(c[2])

\* C11: null-pruning is idempotent: pruning an already pruned payload tree
\* (objects, lists, scalars, null, undefined) returns the same structure.
C11_PruneIdempotent ==
    pc = "repruned" => cleanedInfo = info

\* the second pruning ran on what a list with a null element was pruned to
C11_Witness ==
    /\ pc = "repruned"
    /\ Get(info, "a") = Obj(<< KV("1", Num(0)) >>)
    /\ Get(info, "b") = Obj(<< KV("c", Obj(<<>>)) >>)

\* C12: after the null-pruning no key at any depth of the flow A payload
\* (inside the aggregated record and inside lists too) has a null or
\* undefined value, and every key whose value is neither is still present
\* with the same scalar value.
C12_PrunedPayload ==
    (flow = "A" /\ cleanedInfo # Undef)
        => /\ NoNullAnywhere(cleanedInfo)
           /\ Kept(info, cleanedInfo)

\* a returned payload whose record, label list and activity held nulls
C12_Witness ==
    /\ flow = "A" /\ outcome = "returned"
    /\ LET data == Get(Get(info, "bestMatch"), "data")
           clean == Get(Get(cleanedInfo, "bestMatch"), "data")
       IN /\ Get(Get(data, "deal"), "value") = Null
          /\ Get(Get(data, "deal"), "labels") = Arr(<< Str("hot"), Null >>)
          /\ Get(data, "activities")
                = Arr(<< Obj(<< KV("subject", Str("call")), KV("note", Null) >>) >>)
          /\ Get(Get(Get(clean, "activities"), "0"), "subject") = Str("call")

-----------------------------------------------------------------------------
(* Flow B: the completion *)

RefBlank(s) == \A k \in 1..Len(s) : SubSeq(s, k, k) \in {" ", "\n", "\t"}

\* out is s without its leading and trailing whitespace
RefTrimmed(out, s) ==
    \E i, j \in 0..Len(s) :
        /\ i + j <= Len(s)
        /\ out = SubSeq(s, i + 1, Len(s) - j)
        /\ RefBlank(SubSeq(s, 1, i))
        /\ RefBlank(SubSeq(s, Len(s) - j + 1, Len(s)))
        /\ Len(out) > 0 => /\ ~RefBlank(SubSeq(out, 1, 1))
                           /\ ~RefBlank(SubSeq(out, Len(out), Len(out)))

\* the content of the first choice of a completion body, "" when there is none
RefGenerated(body) ==
    LET choices == body.kids[1].v.elems
        message == choices[1].kids[1].v
        content == message.kids[1].v
    IN IF choices = <<>> THEN ""
       ELSE IF content.tag = "str" THEN content.s ELSE ""

\* C13: in flow B a completion response with no generated text (no first
\* choice, or empty or missing content) fails the request with an error;
\* otherwise textResponse is the generated text without its leading and
\* trailing whitespace.  No run returns a textResponse made from an empty
\* completion.
C13_CompletionText ==
    (flow = "B" /\ completion # Undef)
        => LET text == RefGenerated(completion)
               out == IF textResponse = <<>> THEN "" ELSE textResponse[1].s
           IN /\ pc = "done"
              /\ text = ""
                    => /\ outcome = "thrown"
                       /\ textResponse = <<>>
                       /\ errorMsg = "Failed to process request: Failed to generate summary: "
                                        \o "No summary generated"
              /\ text # ""
                    => /\ outcome = "returned"
                       /\ Len(textResponse) <= 1
                       /\ RefTrimmed(out, text)

\* a generated text with whitespace on both sides is returned trimmed
C13_Witness ==
    /\ flow = "B" /\ outcome = "returned"
    /\ RefGenerated(completion) = " Deal is open.\n"
    /\ textResponse = << [s |-> "Deal is open.", n |-> 1] >>

-----------------------------------------------------------------------------
(* The order of the remote calls *)

\* the endpoints of the calls issued so far, in the order of issue
IssuedEndpoints == [i \in 1..Len(issued) |-> issued[i].ep]

\* the handler of flow A has gone past the two searches
PastSearches ==
    \/ bestLead # Undef \/ bestDeal # Undef \/ info # Undef
    \/ Len(issued) > 2 \/ outcome # "none"

\* C14: flow A issues the lead search and the deal search together, before
\* either has completed; whatever the order of the two completions, scoring
\* and detail fetches begin only after both have completed, a failed search
\* does not end the wait for the other, and what each search returned is
\* counted for its own kind whichever completed first.
C14_SearchesJoin ==
    flow = "A" =>
        /\ (leadSearch # "idle" \/ dealSearch # "idle")
              => /\ leadSearch # "idle" /\ dealSearch # "idle"
                 /\ SubSeq(IssuedEndpoints, 1, 2) = << "leads/search", "deals/search" >>
        /\ PastSearches => leadSearch = "done" /\ dealSearch = "done"
        /\ (leadSearch = "pending" \/ dealSearch = "pending")
              => pc = "searching" /\ outcome = "none" /\ Len(issued) = 2
        /\ (leadSearch = "done" /\ dealSearch = "done")
              => /\ \A j \in 1..Len(HitsOf(leadResults)) :
                       HitsOf(leadResults)[j] \in LeadHits
                 /\ \A j \in 1..Len(HitsOf(dealResults)) :
                       HitsOf(dealResults)[j] \in DealHits
                 /\ "leads/search" \in failedCalls => HitsOf(leadResults) = <<>>
                 /\ "deals/search" \in failedCalls => HitsOf(dealResults) = <<>>
        /\ info # Undef
              => /\ Get(info, "leadsFound") = Num(Len(HitsOf(leadResults)))
                 /\ Get(info, "dealsFound") = Num(Len(HitsOf(dealResults)))

\* the deal search has failed first and the lead search is still awaited
C14_Witness ==
    /\ flow = "A" /\ pc = "searching"
    /\ dealSearch = "done" /\ "deals/search" \in failedCalls
    /\ leadSearch = "pending" /\ outcome = "none"

\* C15: flow B runs its two searches one after the other: the deal search
\* is issued only after the lead search has completed, and it is issued
\* also when the lead search failed.
C15_SearchesInSequence ==
    flow = "B" =>
        /\ dealSearch # "idle" => leadSearch = "done"
        /\ "deals/search" \in Endpoints(issued) <=> leadSearch = "done"
        /\ leadSearch # "idle" => IssuedEndpoints[1] = "leads/search"
        /\ leadSearch = "done" => IssuedEndpoints[2] = "deals/search"
        /\ "leads/search" \in failedCalls
              => "deals/search" \in Endpoints(issued) /\ dealSearch # "idle"

\* the lead search has failed and the deal search is under way
C15_Witness ==
    /\ flow = "B"
    /\ "leads/search" \in failedCalls
    /\ dealSearch = "pending" /\ outcome = "none"

\* C16: in flow B the deal activities fetch is issued only after both
\* searches have completed and the candidate is selected; when a deal is the
\* selected candidate the completion request is issued only after the
\* activities fetch has completed; when a lead is selected the activities
\* fetch is never issued.
C16_CompletionAfterActivities ==
    flow = "B" =>
        /\ "deals/id/activities" \in Endpoints(issued)
              => /\ leadSearch = "done" /\ dealSearch = "done"
                 /\ bestLead # Undef /\ Truthy(bestDeal)
                 /\ SubSeq(IssuedEndpoints, 1, 3)
                       = << "leads/search", "deals/search", "deals/id/activities" >>
        /\ "completion" \in Endpoints(issued)
              => /\ Get(summaryData, "type") \in {Str("lead"), Str("deal")}
                 /\ Get(summaryData, "type") = Str("deal")
                       => /\ activities # Undef
                          /\ pc \in {"completion", "done"}
                          /\ IssuedEndpoints = << "leads/search", "deals/search",
                                                  "deals/id/activities", "completion" >>
        /\ Get(summaryData, "type") = Str("lead")
              => /\ activities = Undef
                 /\ IssuedEndpoints = << "leads/search", "deals/search", "completion" >>

\* a deal is selected and the completion is requested after its activities
\* fetch has failed
C16_Witness ==
    /\ flow = "B" /\ pc = "completion"
    /\ Get(summaryData, "type") = Str("deal")
    /\ "deals/id/activities" \in failedCalls
    /\ activities = Arr(<<>>)

\* C17: no remote call is retried: in a run every endpoint (a search, a
\* record, activities or notes fetch, the completion) is called at most once,
\* also after it has failed.
C17_NoRetry ==
    /\ \A i, j \in 1..Len(issued) : issued[i].ep = issued[j].ep => i = j
    /\ failedCalls \subseteq Endpoints(issued)
    /\ Len(issued) <= 5

\* a run that went on after a failed activities fetch and returned
C17_Witness ==
    /\ flow = "A" /\ outcome = "returned"
    /\ "leads/id/activities" \in failedCalls
    /\ IssuedEndpoints = << "leads/search", "deals/search", "leads/id",
                            "leads/id/activities", "leads/id/notes" >>

-----------------------------------------------------------------------------
(* Termination *)

\* C18: when every issued remote call eventually completes, every request of
\* flow A and of flow B ends, either with a returned textResponse or with one
\* thrown failure; a failed run returns no textResponse, and once the outcome
\* is decided no remote call is issued and the outcome does not change.
C18_Terminates ==
    /\ <>(pc = "done" /\ outcome \in {"returned", "thrown"})
    /\ [](outcome = "thrown" => textResponse = <<>> /\ errorMsg # "")
    /\ [](outcome = "returned" => errorMsg = "")
    /\ [](outcome # "none" <=> pc = "done")
    /\ [][outcome # "none"
            => /\ issued' = issued /\ outcome' = outcome
               /\ textResponse' = textResponse /\ errorMsg' = errorMsg]_vars

\* a run of flow A that failed at its last call, after both searches and
\* two detail fetches had succeeded
C18_Witness ==
    /\ flow = "A" /\ pc = "done" /\ outcome = "thrown"
    /\ failedCalls = {"deals/id/notes"}
    /\ textResponse = <<>>

-----------------------------------------------------------------------------
(* Flow A: the no-match fallback *)

\* C19: findBestMatch of flow A returns null exactly when its list is empty
\* (an item that scores zero is still selected); so the no-match fallback is
\* produced only when both result sets are empty, and closestMatches never
\* lists a candidate.
C19_FallbackOnlyWhenEmpty ==
    flow = "A" =>
        /\ bestLead # Undef => (bestLead = Null <=> HitsOf(leadResults) = <<>>)
        /\ bestDeal # Undef => (bestDeal = Null <=> HitsOf(dealResults) = <<>>)
        /\ Get(info, "message") # Undef
              => /\ HitsOf(leadResults) = <<>> /\ HitsOf(dealResults) = <<>>
                 /\ bestLead = Null /\ bestDeal = Null
        /\ Get(info, "closestMatches") # Undef
              => Get(info, "closestMatches")
                    = Obj(<< KV("deals", Arr(<<>>)), KV("leads", Arr(<<>>)) >>)
        /\ (bestDeal # Undef /\ Get(info, "message") = Undef /\ outcome = "returned")
              => Get(info, "bestMatch") # Undef

\* deal hits that all score zero, one of which is selected and fetched
C19_Witness ==
    /\ flow = "A" /\ pc = "dealRecord"
    /\ HitsOf(dealResults) # <<>>
    /\ \A j \in 1..Len(HitsOf(dealResults)) : RefScore(HitsOf(dealResults)[j], searchTerm) = 0
    /\ bestDeal = Get(HitsOf(dealResults)[1], "item")

-----------------------------------------------------------------------------
(* Flow B: lead or deal *)

\* some hit of the result set matches the search term
HasCandidate(results) ==
    \E j \in 1..Len(HitsOf(results)) : RefMatches(HitsOf(results)[j], searchTerm)

\* the remote score the search returned along with the selected item
RemoteScoreOf(best, results) ==
    LET hits == { HitsOf(results)[j] : j \in 1..Len(HitsOf(results)) }
    IN Get(CHOOSE h \in hits : Get(h, "item") = best, "result_score")

\* what flow B goes on to summarize, once it is decided
Selected ==
    IF "deals/id/activities" \in Endpoints(issued) THEN "deal"
    ELSE IF "completion" \in Endpoints(issued) THEN "lead"
    ELSE "none"

\* C20: in flow B, with a lead candidate and a deal candidate, the lead is
\* summarized when its remote result_score is strictly greater than the
\* deal's and the deal in every other case (equal scores, a score missing);
\* a lead is also summarized when there is no deal candidate.
C20_LeadOnlyIfHigherScore ==
    (flow = "B" /\ Selected # "none")
        => LET lead == HasCandidate(leadResults)
               deal == HasCandidate(dealResults)
           IN /\ (lead /\ deal)
                    => LET ls == RemoteScoreOf(bestLead, leadResults)
                           ds == RemoteScoreOf(bestDeal, dealResults)
                           higher == ls.tag = "num" /\ ds.tag = "num" /\ ls.n > ds.n
                       IN Selected = (IF higher THEN "lead" ELSE "deal")
              /\ (lead /\ ~deal) => Selected = "lead"
              /\ (deal /\ ~lead) => Selected = "deal"

-----------------------------------------------------------------------------
(* Flow B: failures after the selection *)

SummaryFailure == "Failed to process request: Failed to generate summary: "

\* C21: in flow B a failed deal activities fetch does not end the request:
\* the completion is requested with an empty activities list; once a
\* candidate is selected only a failure of the completion step (a rejected
\* request or no generated text) makes the request fail.
C21_ActivitiesFailureNotFatal ==
    flow = "B" =>
        /\ "deals/id/activities" \in failedCalls
              => /\ activities = Arr(<<>>)
                 /\ Get(summaryData, "type") = Str("deal")
                 /\ Get(summaryData, "activities") = Arr(<<>>)
                 /\ "completion" \in Endpoints(issued)
        /\ (Selected # "none" /\ outcome = "thrown")
              => /\ "completion" \in Endpoints(issued)
                 /\ "completion" \in failedCalls \/ completion # Undef
                 /\ completion # Undef => RefGenerated(completion) = ""
                 /\ SubSeq(errorMsg, 1, Len(SummaryFailure)) = SummaryFailure
        /\ (Selected # "none" /\ completion # Undef /\ RefGenerated(completion) # "")
              => outcome = "returned"

\* a deal run that returned its summary after the activities fetch had failed
C21_Witness ==
    /\ flow = "B" /\ outcome = "returned"
    /\ failedCalls = {"deals/id/activities"}
    /\ Get(summaryData, "activities") = Arr(<<>>)
    /\ textResponse # <<>>

====
